---- MODULE Spec2Model ----
(***************************************************************************)
(* Flow-graph construction for the Sankey plugin: row ingestion            *)
(* (transformSigmaDataToSankey), duplicate-edge aggregation                *)
(* (aggregateLinks), node layering (calculateNodeDepths) and validation    *)
(* (validateSankeyData), as written in                                     *)
(* src/src/lib/sankeyDataTransform.ts, together with the memos and the     *)
(* render branches of src/src/App.tsx; the tooltip template functions of   *)
(* src/src/lib/sankeyDefaults.ts; the settings dialog of                   *)
(* src/src/Settings.tsx; the chart component of src/unnamed/part_001.      *)
(*                                                                         *)
(* A JavaScript string is a sequence of one-character strings, so that     *)
(* trimming, concatenation and number parsing are computed and not assumed. *)
(* A cell of the host data is a tagged value: string, number, boolean,     *)
(* symbol or null.  Numbers are integers; NaN is the value NaN below.      *)
(***************************************************************************)
EXTENDS Integers, Sequences, FiniteSets

VARIABLES
    aggIn,          \* aggregateLinks: the links argument
    aggOut,         \* aggregateLinks: the returned array
    aggPc,          \* "call" before aggregateLinks ran, "done" after
    sigmaData,      \* App: useElementData, column name -> sequence of cells
    config,         \* App: useConfig, the source element and the four column selectors
    rawData,        \* App: result of transformSigmaDataToSankey inside the memo
    sankeyData,     \* App: value of the sankeyData memo
    dataValidation, \* App: value of the dataValidation memo
    view,           \* App: the branch of the returned element tree
    selectedID,     \* App: the selected-ID variable of the host
    appPc,          \* "render" before the memo ran, "done" after
    dNodes,         \* calculateNodeDepths: the nodes argument
    dLinks,         \* calculateNodeDepths: the links argument
    nodeMap,        \* calculateNodeDepths: name -> depth, in insertion order
    visited,        \* calculateNodeDepths: set of processed names
    inDegree,       \* calculateNodeDepths: Map name -> remaining in-degree
    queue,          \* calculateNodeDepths: work queue
    currentDepth,   \* calculateNodeDepths: wave counter
    dOut,           \* calculateNodeDepths: the returned array
    dPc,            \* "while" inside the loop, "done" after the return
    vData,          \* validateSankeyData: the data argument
    vReport,        \* validateSankeyData: the returned report
    vPc,            \* "call" before validateSankeyData ran, "done" after
    tpl,            \* tooltip: the template string
    tParams,        \* tooltip: the params object the chart passes to the formatter
    fmtOut,         \* tooltip: what the formatter of tpl returned for tParams
    tvReport,       \* tooltip: what validateTooltipTemplate(tpl) returned
    migrated,       \* tooltip: what migrateTooltipTemplate(tpl) returned
    tDone,          \* tooltip: the functions that were called
    currentSettings, \* Settings: the settings state of App, the currentSettings prop
    tempSettings,   \* Settings: the tempSettings state
    showSettings,   \* Settings: the dialog is open
    writtenConfig,  \* Settings: the last argument of client.config.set, if any
    saveClicks,     \* Settings: what each click on Save did
    edits,          \* Settings: number of input changes so far
    cData,          \* SankeyChart: the data prop of the last render
    cSettings,      \* SankeyChart: the settings prop of the last render
    chart,          \* SankeyChart: its refs, its error state, the charts made
    chartOption,    \* SankeyChart: the memoized option
    cPc,            \* SankeyChart: "mount", "effects", "effectsObserver", "idle", "unmounted"
    observing,      \* SankeyChart: the ResizeObserver is connected
    listening,      \* SankeyChart: handleResize listens to the window
    timers    \* SankeyChart: the pending timeouts of the ResizeObserver

aggVars == <<aggIn, aggOut, aggPc>>
appVars == <<sigmaData, config, rawData, sankeyData, dataValidation, view, selectedID, appPc>>
depthVars == <<dNodes, dLinks, nodeMap, visited, inDegree, queue, currentDepth, dOut, dPc>>
validateVars == <<vData, vReport, vPc>>
tooltipVars == <<tpl, tParams, fmtOut, tvReport, migrated, tDone>>
settingsVars == <<currentSettings, tempSettings, showSettings, writtenConfig, saveClicks, edits>>
chartVars == <<cData, cSettings, chart, chartOption, cPc, observing, listening, timers>>
uiVars == <<tooltipVars, settingsVars, chartVars>>
vars == <<aggVars, appVars, depthVars, validateVars, uiVars>>

----------------------------------------------------------------------------
(* Bounds of the model *)

MaxAggLinks == 2
MaxRows == 2
MaxNodes == 3
MaxDLinks == 3
MaxVNodes == 2
MaxVLinks == 2
MaxTplTokens == 2
MaxEdits == 1
MaxInits == 3
MaxTimers == 1

----------------------------------------------------------------------------
(* JavaScript strings and coercions *)

WhiteSpace == {" "}
Digit == {"0", "1", "2", "3", "4", "5", "6", "7", "8", "9"}
DigitChar == <<"0", "1", "2", "3", "4", "5", "6", "7", "8", "9">>
RECURSIVE TrimStart(_)
TrimStart(s) ==
    IF s = <<>> THEN s
    ELSE IF Head(s) \in WhiteSpace THEN TrimStart(Tail(s)) ELSE s

RECURSIVE TrimEnd(_)
TrimEnd(s) ==
    IF s = <<>> THEN s
    ELSE IF s[Len(s)] \in WhiteSpace THEN TrimEnd(SubSeq(s, 1, Len(s) - 1)) ELSE s

\* String.prototype.trim
Trim(s) == TrimEnd(TrimStart(s))

DigitValue(c) == CHOOSE d \in 0..9 : DigitChar[d + 1] = c

RECURSIVE Digits(_)
Digits(n) ==
    IF n < 10 THEN <<DigitChar[n + 1]>>
    ELSE Digits(n \div 10) \o <<DigitChar[(n % 10) + 1]>>

RECURSIVE ParseDigits(_, _)
ParseDigits(s, acc) ==
    IF s = <<>> THEN acc ELSE ParseDigits(Tail(s), 10 * acc + DigitValue(Head(s)))

AllDigits(s) == s # <<>> /\ \A i \in DOMAIN s : s[i] \in Digit

\* a JavaScript number: an integer, or NaN
Number(n) == [nan |-> FALSE, n |-> n]
NaN == [nan |-> TRUE, n |-> 0]

\* Number(string): StringToNumber on the trimmed text (integers only)
StringToNumber(s) ==
    LET t == Trim(s) IN
    IF t = <<>> THEN Number(0)
    ELSE IF AllDigits(t) THEN Number(ParseDigits(t, 0))
    ELSE IF Head(t) = "-" /\ AllDigits(Tail(t)) THEN Number(0 - ParseDigits(Tail(t), 0))
    ELSE IF Head(t) = "+" /\ AllDigits(Tail(t)) THEN Number(ParseDigits(Tail(t), 0))
    ELSE NaN

\* cells of the host data (a number cell holds an integer)
Str(s) == [t |-> "string", v |-> s]
Num(n) == [t |-> "number", v |-> n]
Bool(b) == [t |-> "boolean", v |-> b]
Null == [t |-> "null", v |-> 0]
Sym == [t |-> "symbol", v |-> 0]

\* ToBoolean
Truthy(c) ==
    CASE c.t = "string" -> c.v # <<>>
      [] c.t = "number" -> c.v # 0
      [] c.t = "boolean" -> c.v
      [] c.t = "symbol" -> TRUE
      [] OTHER -> FALSE

\* String(x)
JsString(c) ==
    CASE c.t = "string" -> c.v
      [] c.t = "number" ->
            IF c.v < 0 THEN <<"-">> \o Digits(0 - c.v) ELSE Digits(c.v)
      [] c.t = "boolean" ->
            IF c.v THEN <<"t", "r", "u", "e">> ELSE <<"f", "a", "l", "s", "e">>
      [] c.t = "symbol" -> <<"S", "y", "m", "b", "o", "l", "(", ")">>
      [] OTHER -> <<"n", "u", "l", "l">>

\* Number(x)
JsNumber(c) ==
    CASE c.t = "string" -> StringToNumber(c.v)
      [] c.t = "number" -> Number(c.v)
      [] c.t = "boolean" -> IF c.v THEN Number(1) ELSE Number(0)
      [] OTHER -> Number(0)

\* Number(x) throws a TypeError for a Symbol
NumberThrows(c) == c.t = "symbol"

\* Number(x) || 0
NumberOrZero(c) == LET r == JsNumber(c) IN IF r.nan THEN 0 ELSE r.n

\* String(x || '')
StringOrEmpty(c) == IF Truthy(c) THEN JsString(c) ELSE <<>>

----------------------------------------------------------------------------
(* A JavaScript Map: the sequence of its entries in insertion order *)

MapHas(m, k) == \E i \in DOMAIN m : m[i].key = k
MapGet(m, k) == m[CHOOSE i \in DOMAIN m : m[i].key = k].val
MapSet(m, k, v) ==
    IF MapHas(m, k)
    THEN [i \in DOMAIN m |-> IF m[i].key = k THEN [key |-> k, val |-> v] ELSE m[i]]
    ELSE Append(m, [key |-> k, val |-> v])

----------------------------------------------------------------------------
(* aggregateLinks *)

HasId(link) == "id" \in DOMAIN link

\* const key = `${link.source}->${link.target}`
linkKey(link) == link.source \o <<"-", ">">> \o link.target

\* as mergeValue, the identifier of the later edge replacing the stored one
mergeValueLastId(entry, link) ==
    IF HasId(link)
    THEN [source |-> entry.source, target |-> entry.target,
          value |-> entry.value + link.value, id |-> link.id]
    ELSE [entry EXCEPT !.value = @ + link.value]

\* linkMap.get(key)!.value += link.value
mergeValue(entry, link) == [entry EXCEPT !.value = @ + link.value]

\* linkMap.set(key, { ...link })
firstLink(link) == link

\* as spreadRef, the element of links itself stored in the map
spreadRefShared(i) == i

\* the object stored for the element i of links: { ...link } is a new object
\* (ref 0), not that element (ref i)
spreadRef(i) == 0

\* links.forEach(link => ...); links is the argument array as the loop leaves
\* it, a value of the map the object obj, which is links[ref] when ref > 0
RECURSIVE aggregateLoop(_, _, _)
aggregateLoop(links, i, linkMap) ==
    IF i > Len(links) THEN [links |-> links, linkMap |-> linkMap]
    ELSE
        LET link == links[i]
            key == linkKey(link)
        IN  IF MapHas(linkMap, key)
            THEN LET entry == MapGet(linkMap, key)
                     merged == mergeValue(entry.obj, link)
                 IN  aggregateLoop(IF entry.ref = 0 THEN links
                                   ELSE [links EXCEPT ![entry.ref] = merged],
                                   i + 1,
                                   MapSet(linkMap, key, [obj |-> merged, ref |-> entry.ref]))
            ELSE aggregateLoop(links, i + 1,
                               MapSet(linkMap, key,
                                      [obj |-> firstLink(link), ref |-> spreadRef(i)]))

\* one call: the returned array, and the argument array after the call
aggregateRun(links) ==
    LET r == aggregateLoop(links, 1, <<>>)
    IN  [out |-> [k \in DOMAIN r.linkMap |-> r.linkMap[k].val.obj], links |-> r.links]

aggregateLinks(links) == aggregateRun(links).out

----------------------------------------------------------------------------
(* Inputs of aggregateLinks *)

AggLabels == { <<"A">>, <<"B">>, <<"A", "-", ">", "A">> }
AggValues == {1, 2}
AggIds == { <<"x">>, <<"y">> }

AggLink ==
    [source : AggLabels, target : AggLabels, value : AggValues]
    \cup [source : AggLabels, target : AggLabels, value : AggValues, id : AggIds]

SeqsUpTo(S, n) == UNION { [1..k -> S] : k \in 0..n }

AggInit ==
    /\ aggIn \in SeqsUpTo(AggLink, MaxAggLinks)
    /\ aggOut = <<>>
    /\ aggPc = "call"

Aggregate ==
    /\ aggPc = "call"
    /\ aggOut' = aggregateRun(aggIn).out
    /\ aggIn' = aggregateRun(aggIn).links
    /\ aggPc' = "done"
    /\ UNCHANGED <<appVars, depthVars, validateVars, uiVars>>

----------------------------------------------------------------------------
(* transformSigmaDataToSankey *)

EmptyGraph == [nodes |-> <<>>, links |-> <<>>]

\* sigmaData[column] || []
Column(data, name) == IF name \in DOMAIN data THEN data[name] ELSE <<>>

\* Set.prototype.add on a set kept in insertion order
SetAdd(s, x) == IF \E i \in DOMAIN s : s[i] = x THEN s ELSE Append(s, x)

\* as rowIsSkipped, a value of 0 passing the filter
rowIsSkippedBelowZero(source, target, value) == source = <<>> \/ target = <<>> \/ value < 0

\* if (!source || !target || value <= 0) continue
rowIsSkipped(source, target, value) == source = <<>> \/ target = <<>> \/ value <= 0

\* as addRowNodes, the target registered before the source
addRowNodesTargetFirst(nodeNames, source, target) == SetAdd(SetAdd(nodeNames, target), source)

\* nodeNames.add(source); nodeNames.add(target)
addRowNodes(nodeNames, source, target) == SetAdd(SetAdd(nodeNames, source), target)

\* links.push({ source, target, value })
rowLink(source, target, value) == [source |-> source, target |-> target, value |-> value]

\* the outcome of a call that threw
Raised == [raised |-> TRUE]

RECURSIVE transformLoop(_, _, _, _, _, _)
transformLoop(sourceData, targetData, valueData, i, nodeNames, links) ==
    IF i > Len(sourceData) THEN [nodeNames |-> nodeNames, links |-> links]
    ELSE IF NumberThrows(valueData[i]) THEN Raised
    ELSE
        LET source == Trim(StringOrEmpty(sourceData[i]))
            target == Trim(StringOrEmpty(targetData[i]))
            value == NumberOrZero(valueData[i])
        IN  IF rowIsSkipped(source, target, value)
            THEN transformLoop(sourceData, targetData, valueData, i + 1, nodeNames, links)
            ELSE transformLoop(sourceData, targetData, valueData, i + 1,
                               addRowNodes(nodeNames, source, target),
                               Append(links, rowLink(source, target, value)))

\* the function has four parameters; a fifth argument of a call is not read
transformSigmaDataToSankey(data, sourceColumn, targetColumn, valueColumn) ==
    IF data = Null \/ sourceColumn = "" \/ targetColumn = "" \/ valueColumn = ""
    THEN EmptyGraph
    ELSE
        LET sourceData == Column(data, sourceColumn)
            targetData == Column(data, targetColumn)
            valueData == Column(data, valueColumn)
        IN  IF Len(sourceData) # Len(targetData) \/ Len(sourceData) # Len(valueData)
            THEN EmptyGraph
            ELSE
                LET r == transformLoop(sourceData, targetData, valueData, 1, <<>>, <<>>)
                IN  IF r = Raised THEN Raised
                    ELSE [nodes |-> [k \in DOMAIN r.nodeNames |-> [name |-> r.nodeNames[k]]],
                          links |-> r.links]

----------------------------------------------------------------------------
(* validateSankeyData *)

\* a message without a number, and a message built around a count
Plain(text) == [text |-> text]
Counted(text, n) == [text |-> text, count |-> n]

\* the array, or the empty array when the condition is false
When(cond, message) == IF cond THEN <<message>> ELSE <<>>

\* as reportIsValid, warnings counted against validity
reportIsValidNoWarnings(errors, warnings) == Len(errors) = 0 /\ Len(warnings) = 0

\* isValid: errors.length === 0
reportIsValid(errors, warnings) == Len(errors) = 0

\* as orphanedNodes, only the sources of the links collected in linkNodes
orphanedNodesSourceOnly(nodes, links) ==
    { k \in DOMAIN nodes : \A i \in DOMAIN links : links[i].source # nodes[k].name }

\* const orphanedNodes = data.nodes.filter(node => !linkNodes.has(node.name))
orphanedNodes(nodes, links) ==
    { k \in DOMAIN nodes :
        \A i \in DOMAIN links : links[i].source # nodes[k].name /\ links[i].target # nodes[k].name }

\* as invalidLinks, a link counted only when both its ends are unknown
invalidLinksBothEnds(nodes, links) ==
    LET nodeNames == { nodes[k].name : k \in DOMAIN nodes }
    IN  { i \in DOMAIN links :
            links[i].source \notin nodeNames /\ links[i].target \notin nodeNames }

\* links whose source or target is not in nodeNames
invalidLinks(nodes, links) ==
    LET nodeNames == { nodes[k].name : k \in DOMAIN nodes }
    IN  { i \in DOMAIN links :
            links[i].source \notin nodeNames \/ links[i].target \notin nodeNames }

\* as selfLinks, the source compared with itself
selfLinksSameField(links) == { i \in DOMAIN links : links[i].source = links[i].source }

\* data.links.filter(link => link.source === link.target)
selfLinks(links) == { i \in DOMAIN links : links[i].source = links[i].target }

\* as negativeValueLinks, a value of 0 not counted
negativeValueLinksBelowZero(links) == { i \in DOMAIN links : links[i].value < 0 }

\* data.links.filter(link => link.value <= 0)
negativeValueLinks(links) == { i \in DOMAIN links : links[i].value <= 0 }

\* the message texts, N standing for the count
TextMissing == "Missing nodes or links data"
TextNoNodes == "No nodes found in data"
TextNoLinks == "No links found in data"
TextOrphaned == "Found N orphaned nodes (nodes not connected to any links)"
TextInvalid == "Found N links referencing non-existent nodes"
TextSelf == "Found N self-referencing links"
TextNegative == "Found N links with zero or negative values"

\* as missingDataReport, the error message not pushed
missingDataReportNoError == [isValid |-> FALSE, errors |-> <<>>, warnings |-> <<>>]

\* errors.push('Missing nodes or links data'); return { isValid: false, errors, warnings }
missingDataReport ==
    [isValid |-> FALSE, errors |-> <<Plain(TextMissing)>>, warnings |-> <<>>]

\* as emptyErrors, the second check skipped when the first fired
emptyErrorsElseIf(nodes, links) ==
    IF Len(nodes) = 0 THEN <<Plain(TextNoNodes)>>
    ELSE When(Len(links) = 0, Plain(TextNoLinks))

\* the two checks for empty data
emptyErrors(nodes, links) ==
    When(Len(nodes) = 0, Plain(TextNoNodes)) \o When(Len(links) = 0, Plain(TextNoLinks))

\* a document without its nodes or links field has that field undefined;
\* labels are strings, which String(...) leaves as they are
validateSankeyData(data) ==
    IF "nodes" \notin DOMAIN data \/ "links" \notin DOMAIN data
    THEN missingDataReport
    ELSE
        LET nodes == data.nodes
            links == data.links
            orphans == Cardinality(orphanedNodes(nodes, links))
            invalid == Cardinality(invalidLinks(nodes, links))
            selfs == Cardinality(selfLinks(links))
            negative == Cardinality(negativeValueLinks(links))
            errors ==
                emptyErrors(nodes, links)
                \o When(invalid > 0, Counted(TextInvalid, invalid))
                \o When(negative > 0, Counted(TextNegative, negative))
            warnings ==
                When(orphans > 0, Counted(TextOrphaned, orphans))
                \o When(selfs > 0, Counted(TextSelf, selfs))
        IN  [isValid |-> reportIsValid(errors, warnings),
             errors |-> errors,
             warnings |-> warnings]

\* { isValid: true, errors: [], warnings: [] }
NoReport == [isValid |-> TRUE, errors |-> <<>>, warnings |-> <<>>]

----------------------------------------------------------------------------
(* App: the sankeyData memo *)

\* as sankeyDataMemo, without the try block
sankeyDataMemoNoCatch(data, cfg) ==
    IF data = Null \/ cfg.sourceColumn = "" \/ cfg.targetColumn = "" \/ cfg.valueColumn = ""
    THEN [rawData |-> EmptyGraph, sankeyData |-> EmptyGraph]
    ELSE
        LET raw == transformSigmaDataToSankey(data, cfg.sourceColumn, cfg.targetColumn,
                                              cfg.valueColumn)
        IN  IF raw = Raised
            THEN [rawData |-> Raised, sankeyData |-> Raised]
            ELSE [rawData |-> raw,
                  sankeyData |-> [nodes |-> raw.nodes, links |-> aggregateLinks(raw.links)]]

\* the memo of App.tsx: guard, transform, aggregate; rawData is its local, and
\* the catch block returns the empty graph
sankeyDataMemo(data, cfg) ==
    IF data = Null \/ cfg.sourceColumn = "" \/ cfg.targetColumn = "" \/ cfg.valueColumn = ""
    THEN [rawData |-> EmptyGraph, sankeyData |-> EmptyGraph]
    ELSE
        LET raw == transformSigmaDataToSankey(data, cfg.sourceColumn, cfg.targetColumn,
                                              cfg.valueColumn)
        IN  IF raw = Raised
            THEN [rawData |-> Raised, sankeyData |-> EmptyGraph]
            ELSE [rawData |-> raw,
                  sankeyData |-> [nodes |-> raw.nodes, links |-> aggregateLinks(raw.links)]]

\* as dataValidationMemo, an empty graph never validated
dataValidationMemoSkipEmpty(data, cfg, graph) ==
    IF cfg.sourceColumn = "" \/ cfg.targetColumn = "" \/ cfg.valueColumn = ""
    THEN NoReport
    ELSE IF Len(graph.nodes) = 0 /\ Len(graph.links) = 0 /\ data # Null
    THEN NoReport
    ELSE validateSankeyData(graph)

\* the dataValidation memo: no validation without the three selectors, nor of
\* an empty graph when the source column has no rows
dataValidationMemo(data, cfg, graph) ==
    IF cfg.sourceColumn = "" \/ cfg.targetColumn = "" \/ cfg.valueColumn = ""
    THEN NoReport
    ELSE IF Len(graph.nodes) = 0 /\ Len(graph.links) = 0 /\ data # Null
    THEN IF Len(Column(data, cfg.sourceColumn)) > 0
         THEN validateSankeyData(graph)
         ELSE NoReport
    ELSE validateSankeyData(graph)

\* getDataInfo: null without the selectors or one of their columns
getDataInfo(data, cfg) ==
    IF data = Null \/ cfg.sourceColumn = "" \/ cfg.targetColumn = "" \/ cfg.valueColumn = ""
    THEN Null
    ELSE IF {cfg.sourceColumn, cfg.targetColumn, cfg.valueColumn} \ DOMAIN data # {}
    THEN Null
    ELSE [rowCount |-> Len(data[cfg.sourceColumn]),
          hasData |-> /\ Len(data[cfg.sourceColumn]) > 0
                      /\ Len(data[cfg.targetColumn]) > 0
                      /\ Len(data[cfg.valueColumn]) > 0]

\* what App returns: one of its two setup screens, the validation-error
\* panel, the no-data panel, or the SankeyChart component
render(data, cfg, graph, validation) ==
    LET dataInfo == getDataInfo(data, cfg)
    IN  IF cfg.source = "" THEN "selectSource"
        ELSE IF cfg.sourceColumn = "" \/ cfg.targetColumn = "" \/ cfg.valueColumn = ""
        THEN "missingColumns"
        ELSE IF ~validation.isValid THEN "validationErrors"
        ELSE IF /\ (Len(graph.nodes) = 0 \/ Len(graph.links) = 0)
                /\ data # Null
                /\ dataInfo # Null
                /\ dataInfo.hasData
        THEN "noChartData"
        ELSE "chart"

----------------------------------------------------------------------------
(* Inputs of the pipeline *)

SourceBasic == { Str(<<" ", "A", " ">>), Str(<<"B">>) }
TargetBasic == { Str(<<"B", " ">>), Str(<<"A">>) }
ValueBasic == { Num(3), Num(0) }
SourceCells == SourceBasic \cup { Str(<<" ">>), Num(0), Num(7), Bool(FALSE), Null }
TargetCells == TargetBasic \cup { Str(<<>>), Num(0), Bool(TRUE) }
ValueCells == ValueBasic \cup { Num(0 - 5), Str(<<" ", "1", "2">>), Str(<<"x">>), Bool(TRUE), Null }

Row(S, T, V) == [source : S, target : T, value : V]
BasicRows == Row(SourceBasic, TargetBasic, ValueBasic)
Rows == Row(SourceCells, TargetBasic, ValueBasic)
        \cup Row(SourceBasic, TargetCells, ValueBasic)
        \cup Row(SourceBasic, TargetBasic, ValueCells)

ColumnNames == {"src", "tgt", "val", "id"}
FullConfig == [source |-> "sheet", sourceColumn |-> "src", targetColumn |-> "tgt",
               valueColumn |-> "val", idColumn |-> "id"]
NoSourceConfig == [FullConfig EXCEPT !.source = ""]

\* useElementData before the host has delivered a column
NoColumns == [c \in {} |-> <<>>]

\* labels that hold the separator of the aggregation key
ArrowRows ==
    { [source |-> Str(<<"A", "-", ">">>), target |-> Str(<<"B">>), value |-> Num(3)],
      [source |-> Str(<<"A">>), target |-> Str(<<"-", ">", "B">>), value |-> Num(3)],
      [source |-> Str(<<"B">>), target |-> Str(<<"A">>), value |-> Num(3)] }
NoIdConfig == [FullConfig EXCEPT !.idColumn = ""]

\* a selector left unset, or a column one cell shorter than the others
Shapes ==
    { [config |-> [FullConfig EXCEPT ![k] = ""], short |-> ""] :
        k \in {"sourceColumn", "targetColumn", "valueColumn"} }
    \cup { [config |-> FullConfig, short |-> c] : c \in ColumnNames }
    \cup { [config |-> NoIdConfig, short |-> c] : c \in {""} \cup (ColumnNames \ {"id"}) }

DropLast(s) == IF s = <<>> THEN s ELSE SubSeq(s, 1, Len(s) - 1)

\* the identifier column holds the row number
Columns(rows, short) ==
    LET full == [c \in ColumnNames |->
                    [i \in DOMAIN rows |->
                        CASE c = "src" -> rows[i].source
                          [] c = "tgt" -> rows[i].target
                          [] c = "val" -> rows[i].value
                          [] OTHER -> Num(i)]]
    IN  [c \in ColumnNames |-> IF c = short THEN DropLast(full[c]) ELSE full[c]]

AppInit ==
    /\ \/ \E rows \in SeqsUpTo(Rows, MaxRows) :
            /\ sigmaData = Columns(rows, "")
            /\ config = FullConfig
       \/ \E rows \in SeqsUpTo(BasicRows, MaxRows), sh \in Shapes :
            /\ sigmaData = Columns(rows, sh.short)
            /\ config = sh.config
       \/ \E rows \in SeqsUpTo(ArrowRows, MaxRows) :
            /\ sigmaData = Columns(rows, "")
            /\ config = FullConfig
       \/ /\ sigmaData = NoColumns
          /\ config \in {FullConfig, NoSourceConfig}
    /\ rawData = EmptyGraph
    /\ sankeyData = EmptyGraph
    /\ dataValidation = NoReport
    /\ view = "none"
    /\ selectedID = <<>>
    /\ appPc = "render"

\* first render with the data: the memos run and App returns its element tree
ComputeSankeyData ==
    /\ appPc = "render"
    /\ LET r == sankeyDataMemo(sigmaData, config)
           validation == dataValidationMemo(sigmaData, config, r.sankeyData)
       IN  /\ rawData' = r.rawData
           /\ IF r.sankeyData = Raised
              THEN \* an exception that left the memo leaves App with it
                   /\ view' = "thrown"
                   /\ UNCHANGED <<sankeyData, dataValidation>>
              ELSE /\ sankeyData' = r.sankeyData
                   /\ dataValidation' = validation
                   /\ view' = render(sigmaData, config, r.sankeyData, validation)
    /\ appPc' = "done"
    /\ UNCHANGED <<sigmaData, config, selectedID, aggVars, depthVars, validateVars, uiVars>>

\* rows of which some have a value cell that Number(...) throws on
RerunRows ==
    [source : { Str(<<"A">>), Str(<<"B">>) }, target : { Str(<<"B">>) }, value : { Num(3), Sym }]
RerunData == { Columns(rows, "") : rows \in SeqsUpTo(RerunRows, MaxRows) }

RerunInit ==
    /\ sigmaData \in RerunData
    /\ config = FullConfig
    /\ rawData = EmptyGraph
    /\ sankeyData = EmptyGraph
    /\ dataValidation = NoReport
    /\ view = "none"
    /\ selectedID = <<>>
    /\ appPc = "render"

\* useElementData delivers other data: App renders again and the memos run
DataChange ==
    /\ appPc = "done"
    /\ sigmaData' \in RerunData \ {sigmaData}
    /\ appPc' = "render"
    /\ UNCHANGED <<config, rawData, sankeyData, dataValidation, view, selectedID,
                    aggVars, depthVars, validateVars, uiVars>>

\* SankeyChart copies link.id into the rendered link when it is truthy
renderedLinkId(link) == IF HasId(link) /\ link.id # <<>> THEN link.id ELSE <<>>

\* onLinkClick: if (setSelectedID && params?.data?.id) setSelectedID(params.data.id)
LinkClick ==
    /\ appPc = "done"
    /\ view = "chart"
    /\ \E i \in DOMAIN sankeyData.links :
            LET id == renderedLinkId(sankeyData.links[i])
            IN  selectedID' = IF id # <<>> THEN id ELSE selectedID
    /\ UNCHANGED <<sigmaData, config, rawData, sankeyData, dataValidation, view, appPc,
                    aggVars, depthVars, validateVars, uiVars>>

----------------------------------------------------------------------------
(* calculateNodeDepths *)

\* a depth left unset, as a value that is no depth
unsetDepth == 0 - 1

\* new Map(nodes.map(node => [node.name, { ...node, depth: 0 }]))
initialDepth == 0

\* the object stored for the element k of nodes: { ...node, depth: 0 } is a
\* new object (ref 0), not that element (ref k)
copyRef(k) == 0

\* nodes is the argument array as the call leaves it, a value of the map an
\* object that is nodes[ref] when ref > 0
RECURSIVE newNodeMap(_, _, _)
newNodeMap(nodes, k, m) ==
    IF k > Len(nodes) THEN [nodeMap |-> m, nodes |-> nodes]
    ELSE
        LET ref == copyRef(k)
            name == nodes[k].name
        IN  newNodeMap(IF ref = 0 THEN nodes
                       ELSE [nodes EXCEPT ![ref] = [name |-> name, depth |-> initialDepth]],
                       k + 1,
                       MapSet(m, name, [name |-> name, depth |-> initialDepth, ref |-> ref]))

\* Array.from(nodeMap.values())
returnedNodes(m) == [i \in DOMAIN m |-> [name |-> m[i].val.name, depth |-> m[i].val.depth]]

\* nodes.forEach(node => inDegree.set(node.name, 0))
RECURSIVE zeroInDegree(_, _)
zeroInDegree(nodes, m) ==
    IF nodes = <<>> THEN m ELSE zeroInDegree(Tail(nodes), MapSet(m, Head(nodes).name, 0))

\* inDegree.get(name) || 0
DegreeOf(m, name) == IF MapHas(m, name) THEN MapGet(m, name) ELSE 0

\* links.forEach(link => inDegree.set(target, (inDegree.get(target) || 0) + 1))
RECURSIVE countInDegree(_, _)
countInDegree(links, m) ==
    IF links = <<>> THEN m
    ELSE countInDegree(Tail(links),
                       MapSet(m, Head(links).target, DegreeOf(m, Head(links).target) + 1))

\* as seedQueue, every label of the in-degree map seeded
RECURSIVE seedQueueAll(_, _)
seedQueueAll(m, q) ==
    IF m = <<>> THEN q ELSE seedQueueAll(Tail(m), Append(q, Head(m).key))

\* inDegree.forEach((degree, nodeName) => { if (degree === 0) queue.push(nodeName) })
RECURSIVE seedQueue(_, _)
seedQueue(m, q) ==
    IF m = <<>> THEN q
    ELSE seedQueue(Tail(m), IF Head(m).val = 0 THEN Append(q, Head(m).key) ELSE q)

\* the inner links.forEach of a processed node; st = [inDegree, queue]
RECURSIVE relaxLinks(_, _, _, _)
relaxLinks(links, nodeName, seen, st) ==
    IF links = <<>> THEN st
    ELSE
        LET link == Head(links) IN
        IF link.source = nodeName
        THEN LET newInDegree == DegreeOf(st.inDegree, link.target) - 1
                 deg == MapSet(st.inDegree, link.target, newInDegree)
             IN  relaxLinks(Tail(links), nodeName, seen,
                            [inDegree |-> deg,
                             queue |-> IF newInDegree = 0 /\ link.target \notin seen
                                       THEN Append(st.queue, link.target)
                                       ELSE st.queue])
        ELSE relaxLinks(Tail(links), nodeName, seen, st)

\* one iteration of the for loop: queue.shift() and the body
processNode(st, links, depth) ==
    LET nodeName == Head(st.queue)
        rest == Tail(st.queue)
    IN  IF MapHas(st.nodeMap, nodeName) /\ nodeName \notin st.visited
        THEN LET seen == st.visited \cup {nodeName}
                 r == relaxLinks(links, nodeName, seen,
                                 [inDegree |-> st.inDegree, queue |-> rest])
                 node == MapGet(st.nodeMap, nodeName)
             IN  [nodeMap |-> MapSet(st.nodeMap, nodeName, [node EXCEPT !.depth = depth]),
                  nodes |-> IF node.ref = 0 THEN st.nodes
                            ELSE [st.nodes EXCEPT ![node.ref] =
                                     [name |-> node.name, depth |-> depth]],
                  visited |-> seen,
                  inDegree |-> r.inDegree,
                  queue |-> r.queue]
        ELSE [st EXCEPT !.queue = rest]

\* as processLevel, the loop bounded by the live queue.length
RECURSIVE processLevelDrain(_, _, _, _)
processLevelDrain(st, links, depth, levelSize) ==
    IF st.queue = <<>> THEN st
    ELSE processLevelDrain(processNode(st, links, depth), links, depth, levelSize)

\* for (let i = 0; i < levelSize; i++)
RECURSIVE processLevel(_, _, _, _)
processLevel(st, links, depth, levelSize) ==
    IF levelSize = 0 THEN st
    ELSE processLevel(processNode(st, links, depth), links, depth, levelSize - 1)

\* lines 102-123: the maps, the in-degrees and the seeded queue
DepthStart ==
    /\ dPc = "call"
    /\ nodeMap' = newNodeMap(dNodes, 1, <<>>).nodeMap
    /\ dNodes' = newNodeMap(dNodes, 1, <<>>).nodes
    /\ visited' = {}
    /\ inDegree' = countInDegree(dLinks, zeroInDegree(dNodes, <<>>))
    /\ queue' = seedQueue(inDegree', <<>>)
    /\ currentDepth' = 0
    /\ dPc' = "while"
    /\ UNCHANGED <<dLinks, dOut, aggVars, appVars, validateVars, uiVars>>

\* one iteration of while (queue.length > 0): a whole wave
DepthWave ==
    /\ dPc = "while"
    /\ queue # <<>>
    /\ LET st == processLevel([nodeMap |-> nodeMap, nodes |-> dNodes, visited |-> visited,
                               inDegree |-> inDegree, queue |-> queue],
                              dLinks, currentDepth, Len(queue))
       IN  /\ nodeMap' = st.nodeMap
           /\ dNodes' = st.nodes
           /\ visited' = st.visited
           /\ inDegree' = st.inDegree
           /\ queue' = st.queue
    /\ currentDepth' = currentDepth + 1
    /\ UNCHANGED <<dLinks, dOut, dPc, aggVars, appVars, validateVars, uiVars>>

\* return Array.from(nodeMap.values())
DepthReturn ==
    /\ dPc = "while"
    /\ queue = <<>>
    /\ dOut' = returnedNodes(nodeMap)
    /\ dPc' = "done"
    /\ UNCHANGED <<dNodes, dLinks, nodeMap, visited, inDegree, queue, currentDepth,
                   aggVars, appVars,
                   validateVars, uiVars>>

\* the while loop run to its end
RECURSIVE depthLoop(_, _, _)
depthLoop(st, links, depth) ==
    IF st.queue = <<>> THEN st
    ELSE depthLoop(processLevel(st, links, depth, Len(st.queue)), links, depth + 1)

\* one call: the returned array, and the nodes argument after the call
depthRun(nodes, links) ==
    LET maps == newNodeMap(nodes, 1, <<>>)
        degrees == countInDegree(links, zeroInDegree(nodes, <<>>))
        st == depthLoop([nodeMap |-> maps.nodeMap, nodes |-> maps.nodes, visited |-> {},
                         inDegree |-> degrees, queue |-> seedQueue(degrees, <<>>)],
                        links, 0)
    IN  [out |-> returnedNodes(st.nodeMap), nodes |-> st.nodes]

calculateNodeDepths(nodes, links) == depthRun(nodes, links).out

----------------------------------------------------------------------------
(* Inputs of calculateNodeDepths *)

NameChars == <<"A", "B", "C", "D", "E", "F">>
NodeNames(n) == { <<NameChars[k]>> : k \in 1..n }
Unknown == <<"X">>
DLink(S, T) == [source : S, target : T, value : {1}]

\* graphs over their own nodes, and graphs of two nodes with dangling edges
DepthInit ==
    /\ \/ \E n \in 0..MaxNodes :
            /\ dNodes = [k \in 1..n |-> [name |-> <<NameChars[k]>>]]
            /\ dLinks \in SeqsUpTo(DLink(NodeNames(n), NodeNames(n)), MaxDLinks)
       \/ /\ dNodes = [k \in 1..2 |-> [name |-> <<NameChars[k]>>]]
          /\ dLinks \in SeqsUpTo(DLink(NodeNames(2) \cup {Unknown},
                                        NodeNames(2) \cup {Unknown}), MaxDLinks)
    /\ nodeMap = <<>> /\ visited = {} /\ inDegree = <<>> /\ queue = <<>>
    /\ currentDepth = 0 /\ dOut = <<>>
    /\ dPc = "call"

----------------------------------------------------------------------------
(* The pipeline run twice on the same columns *)

TwiceRows ==
    [source : { Str(<<"A">>), Str(<<"B">>) }, target : { Str(<<"B">>), Str(<<"C">>) },
     value : { Num(1), Num(2) }]

TwiceInit ==
    /\ sigmaData \in { Columns(rows, "") : rows \in SeqsUpTo(TwiceRows, MaxRows) }
    /\ config = FullConfig
    /\ rawData = EmptyGraph
    /\ sankeyData = EmptyGraph
    /\ dataValidation = NoReport
    /\ view = "none"
    /\ selectedID = <<>>
    /\ appPc = "first"

\* ingestion, aggregation and layering, each on the objects the step before
\* returned: rawData is the provisional graph as ingestion returned it, aggIn
\* and dNodes are its edge list and its node list after the calls that got them
RunPipeline ==
    /\ appPc \in {"first", "second"}
    /\ LET raw == transformSigmaDataToSankey(sigmaData, config.sourceColumn,
                                              config.targetColumn, config.valueColumn)
           a == aggregateRun(raw.links)
           d == depthRun(raw.nodes, a.out)
       IN  /\ rawData' = raw
           /\ aggIn' = a.links
           /\ aggOut' = a.out
           /\ sankeyData' = [nodes |-> raw.nodes, links |-> a.out]
           /\ dNodes' = d.nodes
           /\ dLinks' = a.out
           /\ dOut' = d.out
    /\ appPc' = IF appPc = "first" THEN "second" ELSE "twice"
    /\ UNCHANGED <<sigmaData, config, dataValidation, view, selectedID, aggPc,
                    nodeMap, visited, inDegree, queue, currentDepth, dPc, validateVars, uiVars>>

----------------------------------------------------------------------------
(* Inputs of validateSankeyData *)

VLabels == NodeNames(2) \cup {Unknown}
VValues == {0 - 1, 0, 2}
VLink == [source : VLabels, target : VLabels, value : VValues]

\* documents with both collections, and documents that lack one or both
ValidateInit ==
    /\ \/ \E n \in 0..MaxVNodes, links \in SeqsUpTo(VLink, MaxVLinks) :
            vData = [nodes |-> [k \in 1..n |-> [name |-> <<NameChars[k]>>]],
                     links |-> links]
       \/ \E n \in 0..MaxVNodes :
            vData = [nodes |-> [k \in 1..n |-> [name |-> <<NameChars[k]>>]]]
       \/ \E links \in SeqsUpTo(VLink, 1) : vData = [links |-> links]
       \/ vData = [k \in {} |-> <<>>]
    /\ vReport = NoReport
    /\ vPc = "call"

Validate ==
    /\ vPc = "call"
    /\ vReport' = validateSankeyData(vData)
    /\ vPc' = "done"
    /\ UNCHANGED <<vData, aggVars, appVars, depthVars, uiVars>>

----------------------------------------------------------------------------
(* String.prototype.replace with a global pattern and a string replacement *)

StartsWith(s, i, p) == i + Len(p) - 1 <= Len(s) /\ SubSeq(s, i, i + Len(p) - 1) = p
Includes(s, p) == \E i \in 1..(Len(s) + 1) : StartsWith(s, i, p)

\* a pattern is the sequence of the texts it can match, each with the text its
\* group 1 captures, tried in order at a position; the result is the length of
\* the match and the text of group 1 (empty when the group did not take part)
RECURSIVE matchAt(_, _, _)
matchAt(s, i, alts) ==
    IF alts = <<>> THEN [hit |-> FALSE, len |-> 0, g1 |-> <<>>]
    ELSE IF StartsWith(s, i, Head(alts).text)
         THEN [hit |-> TRUE, len |-> Len(Head(alts).text), g1 |-> Head(alts).g1]
         ELSE matchAt(s, i, Tail(alts))

\* GetSubstitution: the replacement text with $$, $&, $`, $' and $n expanded;
\* groups is the number of capturing groups of the pattern (0 or 1)
RECURSIVE expandReplacement(_, _, _, _, _)
expandReplacement(repl, s, pos, m, groups) ==
    IF repl = <<>> THEN <<>>
    ELSE IF Head(repl) # "$" \/ Len(repl) = 1
    THEN <<Head(repl)>> \o expandReplacement(Tail(repl), s, pos, m, groups)
    ELSE
        LET c == repl[2]
            rest2 == SubSeq(repl, 3, Len(repl))
            rest3 == SubSeq(repl, 4, Len(repl))
        IN  CASE c = "$" -> <<"$">> \o expandReplacement(rest2, s, pos, m, groups)
              [] c = "&" -> SubSeq(s, pos, pos + m.len - 1)
                                \o expandReplacement(rest2, s, pos, m, groups)
              [] c = "`" -> SubSeq(s, 1, pos - 1)
                                \o expandReplacement(rest2, s, pos, m, groups)
              [] c = "'" -> SubSeq(s, pos + m.len, Len(s))
                                \o expandReplacement(rest2, s, pos, m, groups)
              [] c = "1" /\ groups >= 1 ->
                    m.g1 \o expandReplacement(rest2, s, pos, m, groups)
              [] c = "0" /\ groups >= 1 /\ Len(repl) >= 3 /\ repl[3] = "1" ->
                    m.g1 \o expandReplacement(rest3, s, pos, m, groups)
              [] OTHER -> <<"$">> \o expandReplacement(Tail(repl), s, pos, m, groups)

\* the matches are found left to right in s, each one replaced, the text
\* between them copied
RECURSIVE replaceFrom(_, _, _, _, _)
replaceFrom(s, i, alts, groups, repl) ==
    IF i > Len(s) THEN <<>>
    ELSE LET m == matchAt(s, i, alts) IN
         IF m.hit
         THEN expandReplacement(repl, s, i, m, groups)
                  \o replaceFrom(s, i + m.len, alts, groups, repl)
         ELSE <<s[i]>> \o replaceFrom(s, i + 1, alts, groups, repl)

----------------------------------------------------------------------------
(* Tooltip templates: createTooltipFormatter, validateTooltipTemplate,      *)
(* migrateTooltipTemplate (src/src/lib/sankeyDefaults.ts)                   *)

NameSource == <<"s", "o", "u", "r", "c", "e">>
NameTarget == <<"t", "a", "r", "g", "e", "t">>
NameValue == <<"v", "a", "l", "u", "e">>
NameId == <<"i", "d">>
NameName == <<"n", "a", "m", "e">>
DataDot == <<"d", "a", "t", "a", ".">>
Braced(name) == <<"{">> \o name \o <<"}">>

\* /\{(data\.)?NAME\}/g
varPattern(name) ==
    << [text |-> Braced(DataDot \o name), g1 |-> DataDot],
       [text |-> Braced(name), g1 |-> <<>>] >>

\* /\{data\.NAME\}/g
dataPattern(name) == << [text |-> Braced(DataDot \o name), g1 |-> <<>>] >>

\* /<br\s*\/?>/gi at position i: the length of the match, 0 when there is none
RECURSIVE skipSpaces(_, _)
skipSpaces(s, i) ==
    IF i <= Len(s) /\ s[i] \in WhiteSpace THEN skipSpaces(s, i + 1) ELSE i

breakMatch(s, i) ==
    IF /\ i + 2 <= Len(s)
       /\ s[i] = "<" /\ s[i + 1] \in {"b", "B"} /\ s[i + 2] \in {"r", "R"}
    THEN LET j == skipSpaces(s, i + 3)
             k == IF j <= Len(s) /\ s[j] = "/" THEN j + 1 ELSE j
         IN  IF k <= Len(s) /\ s[k] = ">" THEN k + 1 - i ELSE 0
    ELSE 0

\* result.replace(/<br\s*\/?>/gi, '<br/>')
RECURSIVE replaceBreaks(_, _)
replaceBreaks(s, i) ==
    IF i > Len(s) THEN <<>>
    ELSE LET n == breakMatch(s, i) IN
         IF n > 0 THEN <<"<", "b", "r", "/", ">">> \o replaceBreaks(s, i + n)
         ELSE <<s[i]>> \o replaceBreaks(s, i + 1)

\* params.data is undefined
NoRecord == [source |-> Null, target |-> Null, value |-> Null, id |-> Null, given |-> FALSE]
EdgeParams(data) == [dataType |-> "edge", name |-> Null, value |-> Null, data |-> data]

\* String(x || 0)
StringOrZero(c) == IF Truthy(c) THEN JsString(c) ELSE <<"0">>

\* the edge branch: four replace calls, each on the result of the one before
edgeText(template, data) ==
    LET source == StringOrEmpty(data.source)
        target == StringOrEmpty(data.target)
        value == StringOrZero(data.value)
        id == StringOrEmpty(data.id)
        r1 == replaceFrom(template, 1, varPattern(NameSource), 1, source)
        r2 == replaceFrom(r1, 1, varPattern(NameTarget), 1, target)
        r3 == replaceFrom(r2, 1, varPattern(NameValue), 1, value)
    IN  replaceFrom(r3, 1, varPattern(NameId), 1, id)

\* the node branch: name, then source and target as aliases of name, then value
nodeText(template, params) ==
    LET name == StringOrEmpty(params.name)
        value == StringOrZero(params.value)
        r1 == replaceFrom(template, 1, varPattern(NameName), 1, name)
        r2 == replaceFrom(r1, 1, varPattern(NameSource), 1, name)
        r3 == replaceFrom(r2, 1, varPattern(NameTarget), 1, name)
    IN  replaceFrom(r3, 1, varPattern(NameValue), 1, value)

\* createTooltipFormatter(template)(params)
createTooltipFormatter(template, params) ==
    LET result ==
            IF params.dataType = "edge" /\ params.data.given
            THEN edgeText(template, params.data)
            ELSE IF params.dataType = "node" THEN nodeText(template, params)
            ELSE template
    IN  replaceBreaks(result, 1)

\* const supportedVariables = [...] of validateTooltipTemplate
supportedVariables ==
    { Braced(NameSource), Braced(NameTarget), Braced(NameValue), Braced(NameId),
      Braced(NameName), Braced(DataDot \o NameSource), Braced(DataDot \o NameTarget),
      Braced(DataDot \o NameValue), Braced(DataDot \o NameId) }

\* /\{([^}]+)\}/ at position i: the position of the closing brace, 0 when
\* there is no match
closingBrace(s, i) ==
    IF i <= Len(s) /\ s[i] = "{" /\ \E j \in (i + 2)..Len(s) : s[j] = "}"
    THEN LET j == CHOOSE j \in (i + 1)..Len(s) :
                      s[j] = "}" /\ \A k \in (i + 1)..(j - 1) : s[k] # "}"
         IN  IF j >= i + 2 THEN j ELSE 0
    ELSE 0

\* while ((match = variablePattern.exec(template)) !== null): the matches,
\* as records of the full match and of group 1
RECURSIVE foundVariables(_, _)
foundVariables(s, i) ==
    IF i > Len(s) THEN <<>>
    ELSE LET j == closingBrace(s, i) IN
         IF j > 0
         THEN <<[variable |-> SubSeq(s, i, j), varName |-> SubSeq(s, i + 1, j - 1)]>>
                  \o foundVariables(s, j + 1)
         ELSE foundVariables(s, i + 1)

\* the two kinds of warning; only the first holds the text 'Unknown variable'
UnknownVariable(variable) == [kind |-> "Unknown variable", variable |-> variable]
Deprecated == [kind |-> "deprecated", variable |-> <<>>]
includesUnknownVariable(w) == w.kind = "Unknown variable"

\* for (const match of foundVariables)
RECURSIVE unknownWarnings(_, _)
unknownWarnings(found, supported) ==
    IF found = <<>> THEN <<>>
    ELSE LET variable == Head(found).variable
             withDataPrefix == Braced(DataDot \o Head(found).varName)
         IN  (IF variable \notin supported /\ withDataPrefix \notin supported
              THEN <<UnknownVariable(variable)>> ELSE <<>>)
                 \o unknownWarnings(Tail(found), supported)

validateTooltipTemplate(template) ==
    LET warnings ==
            unknownWarnings(foundVariables(template, 1), supportedVariables)
                \o (IF Includes(template, <<"{">> \o DataDot)
                    THEN <<Deprecated>> ELSE <<>>)
    IN  [isValid |-> \A i \in DOMAIN warnings : ~includesUnknownVariable(warnings[i]),
         warnings |-> warnings]

migrateTooltipTemplate(template) ==
    LET r1 == replaceFrom(template, 1, dataPattern(NameSource), 0, Braced(NameSource))
        r2 == replaceFrom(r1, 1, dataPattern(NameTarget), 0, Braced(NameTarget))
        r3 == replaceFrom(r2, 1, dataPattern(NameValue), 0, Braced(NameValue))
    IN  replaceFrom(r3, 1, dataPattern(NameId), 0, Braced(NameId))

----------------------------------------------------------------------------
(* Inputs of the tooltip functions *)

RECURSIVE Flatten(_)
Flatten(ss) == IF ss = <<>> THEN <<>> ELSE Head(ss) \o Flatten(Tail(ss))

\* the templates: up to MaxTplTokens pieces, one after the other
TooltipTemplates ==
    LET tokens ==
            { Braced(NameSource), Braced(DataDot \o NameSource), Braced(NameTarget),
              Braced(NameValue), Braced(DataDot \o NameId), Braced(NameName),
              Braced(DataDot \o NameName), Braced(<<"f", "o", "o">>), <<"{">>,
              <<"<", "b", "r", ">">> }
    IN  { Flatten(ts) : ts \in SeqsUpTo(tokens, MaxTplTokens) }

TooltipRecords ==
    { EdgeParams([source |-> Str(s), target |-> Str(<<"B">>), value |-> r.value,
                  id |-> r.id, given |-> TRUE]) :
        s \in { <<"A">>, Braced(NameTarget), <<"$", "&">> },
        r \in { [value |-> Num(5), id |-> Num(7)], [value |-> Num(0), id |-> Null] } }
    \cup { [dataType |-> "node", name |-> Str(n), value |-> Num(3), data |-> NoRecord] :
             n \in { <<"N">>, <<"$", "1">> } }
    \cup { EdgeParams(NoRecord) }

NoText == <<"?">>

TooltipInit ==
    /\ tpl \in TooltipTemplates
    /\ tParams \in TooltipRecords
    /\ fmtOut = NoText /\ tvReport = [isValid |-> TRUE, warnings |-> <<>>] /\ migrated = NoText
    /\ tDone = {}

TooltipIdle ==
    /\ tpl = <<>> /\ tParams = EdgeParams(NoRecord)
    /\ fmtOut = NoText /\ tvReport = [isValid |-> TRUE, warnings |-> <<>>] /\ migrated = NoText
    /\ tDone = {"format", "validate", "migrate"}


NotTooltip == UNCHANGED <<aggVars, appVars, depthVars, validateVars, settingsVars, chartVars>>

\* the chart asks the formatter of tpl for the tooltip of tParams
FormatTooltip ==
    /\ "format" \notin tDone
    /\ fmtOut' = createTooltipFormatter(tpl, tParams)
    /\ tDone' = tDone \cup {"format"}
    /\ UNCHANGED <<tpl, tParams, tvReport, migrated>>
    /\ NotTooltip

ValidateTemplate ==
    /\ "validate" \notin tDone
    /\ tvReport' = validateTooltipTemplate(tpl)
    /\ tDone' = tDone \cup {"validate"}
    /\ UNCHANGED <<tpl, tParams, fmtOut, migrated>>
    /\ NotTooltip

MigrateTemplate ==
    /\ "migrate" \notin tDone
    /\ migrated' = migrateTooltipTemplate(tpl)
    /\ tDone' = tDone \cup {"migrate"}
    /\ UNCHANGED <<tpl, tParams, fmtOut, tvReport>>
    /\ NotTooltip

----------------------------------------------------------------------------
(* Settings: validateSettings, handleSave, handleCancel and the number      *)
(* inputs (src/src/Settings.tsx), with the settings state of App            *)

\* the settings validateSettings looks at; curveness and opacity are held in
\* hundredths
IntFields == {"width", "fontSize", "nodeGap", "levelGap", "iterations", "duration",
              "customHeight"}
SettingFields == IntFields \cup {"curveness", "opacity"}

\* DEFAULT_SANKEY_SETTINGS; there is no default customHeight
DefaultSettings ==
    [f \in SettingFields |->
        CASE f = "width" -> Num(20)
          [] f = "fontSize" -> Num(12)
          [] f = "curveness" -> Num(50)
          [] f = "opacity" -> Num(70)
          [] f = "nodeGap" -> Num(8)
          [] f = "levelGap" -> Num(20)
          [] f = "iterations" -> Num(32)
          [] f = "duration" -> Num(1000)
          [] OTHER -> Null]

\* the limits written in validateSettings
RangeMin(f) ==
    CASE f = "width" -> 5
      [] f = "fontSize" -> 8
      [] f = "levelGap" -> 10
      [] f = "iterations" -> 1
      [] f = "customHeight" -> 200
      [] OTHER -> 0
RangeMax(f) ==
    CASE f = "width" -> 100
      [] f = "fontSize" -> 24
      [] f = "curveness" -> 100
      [] f = "opacity" -> 100
      [] f = "nodeGap" -> 50
      [] f = "levelGap" -> 200
      [] f = "iterations" -> 100
      [] f = "duration" -> 5000
      [] OTHER -> 2000

\* if (settings.x && (settings.x < min || settings.x > max)) errors.push(...)
fieldError(settings, f) ==
    Truthy(settings[f]) /\ (settings[f].v < RangeMin(f) \/ settings[f].v > RangeMax(f))

\* validateSettings: the fields an error was pushed for, and isValid
validateSettings(settings) ==
    LET errors == { f \in SettingFields : fieldError(settings, f) }
    IN  [isValid |-> errors = {}, errors |-> errors]

\* parseInt of the text of an input: sign and leading digits, NaN without digits
RECURSIVE leadingDigits(_)
leadingDigits(s) ==
    IF s # <<>> /\ Head(s) \in Digit THEN <<Head(s)>> \o leadingDigits(Tail(s)) ELSE <<>>

parseInt(s) ==
    LET t == TrimStart(s)
        neg == t # <<>> /\ Head(t) = "-"
        u == IF t # <<>> /\ Head(t) \in {"-", "+"} THEN Tail(t) ELSE t
        d == leadingDigits(u)
    IN  IF d = <<>> THEN NaN
        ELSE IF neg THEN Number(0 - ParseDigits(d, 0)) ELSE Number(ParseDigits(d, 0))

\* parseInt(e.target.value) || DEFAULT_SANKEY_SETTINGS.x
parseIntOrDefault(s, f) ==
    LET r == parseInt(s) IN
    IF r.nan \/ r.n = 0 THEN DefaultSettings[f] ELSE Num(r.n)

\* the effect on currentSettings: the defaults under the fields that are given
withDefaults(current) ==
    [f \in SettingFields |-> IF f \in DOMAIN current THEN current[f] ELSE DefaultSettings[f]]

----------------------------------------------------------------------------
(* Inputs of Settings *)

\* the settings App read from the config JSON of the host: the defaults, or
\* one field with another value
HostSettings ==
    { DefaultSettings }
    \cup { [DefaultSettings EXCEPT ![f] = v] : f \in SettingFields,
           v \in {Num(0), Num(0 - 1), Num(3), Num(6000)} }

SettingsInit ==
    /\ currentSettings \in HostSettings
    /\ tempSettings = withDefaults(currentSettings)
    /\ showSettings = TRUE
    /\ writtenConfig = <<>>
    /\ saveClicks = {}
    /\ edits = 0

SettingsIdle ==
    /\ currentSettings = DefaultSettings /\ tempSettings = DefaultSettings
    /\ showSettings = FALSE /\ writtenConfig = <<>> /\ saveClicks = {}
    /\ edits = MaxEdits

NotSettings == UNCHANGED <<aggVars, appVars, depthVars, validateVars, tooltipVars, chartVars>>

\* onChange of the number input of the field f, for some typed texts
ChangeSetting ==
    /\ showSettings /\ edits < MaxEdits
    /\ \E f \in IntFields,
          text \in { <<"0">>, <<"3">>, <<"3", "0", "0">>, <<"-", "1">>, <<>> } :
           tempSettings' = [tempSettings EXCEPT ![f] = parseIntOrDefault(text, f)]
    /\ edits' = edits + 1
    /\ UNCHANGED <<currentSettings, showSettings, writtenConfig, saveClicks>>
    /\ NotSettings

\* handleSave; client.config.set may throw. After onSave App holds the saved
\* settings and has closed the dialog, and the effect has copied them back.
\* saveClicks keeps, for each click, the settings it found, whether
\* client.config.set was called, whether onSave was called and whether the
\* dialog was open afterwards
HandleSave ==
    /\ showSettings
    /\ LET validation == validateSettings(tempSettings)
           SaveClick(settings, wrote, saved, open) ==
               [settings |-> settings, wrote |-> wrote, saved |-> saved, open |-> open]
       IN
       IF ~validation.isValid
       THEN /\ saveClicks' = saveClicks \cup {SaveClick(tempSettings, FALSE, FALSE, TRUE)}
            /\ UNCHANGED <<currentSettings, tempSettings, showSettings, writtenConfig>>
       ELSE \E throws \in BOOLEAN :
                IF throws
                THEN /\ saveClicks' = saveClicks \cup {SaveClick(tempSettings, TRUE, FALSE, TRUE)}
                     /\ UNCHANGED <<currentSettings, tempSettings, showSettings, writtenConfig>>
                ELSE /\ writtenConfig' = <<tempSettings>>
                     /\ currentSettings' = tempSettings
                     /\ tempSettings' = withDefaults(tempSettings)
                     /\ showSettings' = FALSE
                     /\ saveClicks' = saveClicks \cup {SaveClick(tempSettings, TRUE, TRUE, FALSE)}
    /\ UNCHANGED edits
    /\ NotSettings

\* handleCancel
HandleCancel ==
    /\ showSettings
    /\ tempSettings' = currentSettings
    /\ showSettings' = FALSE
    /\ UNCHANGED <<currentSettings, writtenConfig, saveClicks, edits>>
    /\ NotSettings

\* handleShowSettings
ShowSettings ==
    /\ ~showSettings
    /\ showSettings' = TRUE
    /\ UNCHANGED <<currentSettings, tempSettings, writtenConfig, saveClicks, edits>>
    /\ NotSettings

----------------------------------------------------------------------------
(* SankeyChart: the chartOption memo, initChart, the effects, the resize    *)
(* handlers and the cleanup on unmount (src/unnamed/part_001)               *)

\* the part of the option the memo computes from the isFirstRender ref
makeOption(settings, firstRender) ==
    LET shouldAnimate == settings.enabled /\ firstRender
    IN  [animation |-> shouldAnimate,
         animationDuration |-> IF shouldAnimate THEN settings.duration ELSE 0]

\* the component: chartDiv says that chartRef.current is the chart div,
\* chartInstance is chartInstance.current (0 for null, else the number of the
\* chart), live the charts made and not disposed, created the number of charts
\* made, error that the error state is set, initLog the calls of initChart
\* that went past the chartRef test (the option handed to setOption, the graph
\* of that render, whether the call ended without an exception),
\* resized that resize() was called, resizedDisposed that it was called on a
\* disposed chart.

\* as disposeExisting, the existing chart left as it is
disposeExistingNone(c) == [c EXCEPT !.chartInstance = 0]

\* if (chartInstance.current) { chartInstance.current.dispose();
\* chartInstance.current = null; }
disposeExisting(c) ==
    IF c.chartInstance # 0
    THEN [c EXCEPT !.live = @ \ {c.chartInstance}, !.chartInstance = 0]
    ELSE c

\* initChart on the component state c, with the option and the graph of the
\* render that made this callback; the try block ends without an exception
\* ("ok"), or echarts.init throws, or setOption throws
initChart(c, option, data, outcome) ==
    IF ~c.chartDiv THEN c
    ELSE
        LET d == disposeExisting([c EXCEPT !.error = FALSE])
            id == d.created + 1
            made == [d EXCEPT !.chartInstance = id, !.live = @ \cup {id}, !.created = id]
            InitCall(ok) == [option |-> option, data |-> data, ok |-> ok]
        IN  CASE outcome = "initThrows" ->
                    [d EXCEPT !.error = TRUE,
                              !.initLog = Append(@, InitCall(FALSE))]
              [] outcome = "setOptionThrows" ->
                    [made EXCEPT !.error = TRUE,
                                 !.initLog = Append(@, InitCall(FALSE))]
              [] OTHER ->
                    [made EXCEPT !.isFirstRender = FALSE,
                                 !.initLog = Append(@, InitCall(TRUE))]

\* useEffect(() => { if (data.nodes.length > 0 && data.links.length > 0) initChart(); })
updateEffect(c, option, data, outcome) ==
    IF data.nodes > 0 /\ data.links > 0 THEN initChart(c, option, data, outcome) ELSE c

\* if (chartInstance.current) chartInstance.current.resize();
resizeCurrent(c) ==
    IF c.chartInstance # 0
    THEN [c EXCEPT !.resized = TRUE,
                   !.resizedDisposed = @ \/ c.chartInstance \notin c.live]
    ELSE c

----------------------------------------------------------------------------
(* Inputs of SankeyChart *)

\* the graph by the lengths of data.nodes and data.links
ChartData == { [nodes |-> n, links |-> l] : n \in 0..1, l \in 0..1 }

\* settings.animation.enabled, settings.animation.duration and
\* settings.layout.heightMode === 'responsive'
ChartSettings == [enabled : BOOLEAN, duration : {1000}, responsive : BOOLEAN]

\* the refs and the state of the component after its first render
NewChart ==
    [chartDiv |-> TRUE, chartInstance |-> 0, live |-> {}, created |-> 0,
     isFirstRender |-> TRUE, error |-> FALSE, initLog |-> <<>>,
     resized |-> FALSE, resizedDisposed |-> FALSE]

ChartInit ==
    /\ cData \in ChartData
    /\ cSettings \in ChartSettings
    /\ chart = NewChart
    /\ chartOption = makeOption(cSettings, TRUE)
    /\ cPc = "mount"
    /\ observing = FALSE /\ listening = FALSE /\ timers = 0

ChartIdle ==
    /\ cData = [nodes |-> 0, links |-> 0]
    /\ cSettings = [enabled |-> FALSE, duration |-> 1000, responsive |-> FALSE]
    /\ chart = NewChart
    /\ chartOption = makeOption(cSettings, TRUE)
    /\ cPc = "unmounted"
    /\ observing = FALSE /\ listening = FALSE /\ timers = 0

NotChart ==
    UNCHANGED <<aggVars, appVars, depthVars, validateVars, tooltipVars, settingsVars>>

\* App renders SankeyChart again: with the same data and settings (the inline
\* onNodeClick and onLinkClick are new functions each time), with a new graph,
\* or with new settings. The memo runs again only for new data or settings.
ParentRender ==
    /\ cPc = "idle"
    /\ Len(chart.initLog) < MaxInits
    /\ \E cause \in {"callbacks", "data", "settings"} :
        /\ cData' \in IF cause = "data" THEN ChartData ELSE {cData}
        /\ cSettings' \in IF cause = "settings" THEN ChartSettings ELSE {cSettings}
        /\ chartOption' = IF cause = "callbacks" THEN chartOption
                          ELSE makeOption(cSettings', chart.isFirstRender)
        /\ cPc' = IF cSettings'.responsive # cSettings.responsive
                  THEN "effectsObserver" ELSE "effects"
    /\ chart' = [chart EXCEPT !.chartDiv = ~chart.error]
    /\ UNCHANGED <<observing, listening, timers>>
    /\ NotChart

\* the effects of the last render: the update effect, then the ResizeObserver
\* effect (on mount and when heightMode changed, after its cleanup), then the
\* window listener (on mount). An exception inside initChart sets the error
\* state, and the render that follows replaces the chart div by the error box.
RunEffects ==
    /\ cPc \in {"mount", "effects", "effectsObserver"}
    /\ \E outcome \in {"ok", "initThrows", "setOptionThrows"} :
        LET c == updateEffect(chart, chartOption, cData, outcome)
        IN  /\ chart' = [c EXCEPT !.chartDiv = c.chartDiv /\ ~c.error]
    /\ observing' = IF cPc = "effects" THEN observing
                    ELSE cSettings.responsive /\ chart.chartDiv
    /\ listening' = TRUE
    /\ cPc' = "idle"
    /\ UNCHANGED <<cData, cSettings, chartOption, timers>>
    /\ NotChart

\* the window fires resize: handleResize
WindowResize ==
    /\ listening
    /\ chart' = resizeCurrent(chart)
    /\ UNCHANGED <<cData, cSettings, chartOption, cPc, observing, timers>>
    /\ UNCHANGED listening
    /\ NotChart

\* the ResizeObserver calls back: setTimeout(..., 50)
ObserverCallback ==
    /\ observing
    /\ timers < MaxTimers
    /\ timers' = timers + 1
    /\ UNCHANGED <<cData, cSettings, chartOption, cPc, observing, listening, chart>>
    /\ NotChart

\* a timeout of the ResizeObserver callback runs, mounted or not
TimerFires ==
    /\ timers > 0
    /\ chart' = resizeCurrent(chart)
    /\ timers' = timers - 1
    /\ UNCHANGED <<cData, cSettings, chartOption, cPc, observing, listening>>
    /\ NotChart

\* App stops rendering SankeyChart: the cleanups of the three effects
Unmount ==
    /\ cPc = "idle"
    /\ chart' = [disposeExisting(chart) EXCEPT !.chartDiv = FALSE]
    /\ observing' = FALSE
    /\ listening' = FALSE
    /\ cPc' = "unmounted"
    /\ UNCHANGED <<cData, cSettings, chartOption, timers>>
    /\ NotChart

UiIdle == TooltipIdle /\ SettingsIdle /\ ChartIdle

----------------------------------------------------------------------------
(* Specifications *)

AggIdle == aggIn = <<>> /\ aggOut = <<>> /\ aggPc = "done"
AppIdle ==
    /\ sigmaData = Columns(<<>>, "") /\ config = FullConfig
    /\ rawData = EmptyGraph /\ sankeyData = EmptyGraph /\ selectedID = <<>>
    /\ dataValidation = NoReport /\ view = "none"
    /\ appPc = "idle"
DepthIdle ==
    /\ dNodes = <<>> /\ dLinks = <<>> /\ nodeMap = <<>> /\ visited = {}
    /\ inDegree = <<>> /\ queue = <<>> /\ currentDepth = 0 /\ dOut = <<>>
    /\ dPc = "done"

ValidateIdle == vData = EmptyGraph /\ vReport = NoReport /\ vPc = "done"

\* aggregateLinks on its own
InitAgg == AggInit /\ AppIdle /\ DepthIdle /\ ValidateIdle /\ UiIdle
NextAgg == Aggregate
SpecAgg == InitAgg /\ [][NextAgg]_vars

\* calculateNodeDepths on its own
InitDepth == DepthInit /\ AggIdle /\ AppIdle /\ ValidateIdle /\ UiIdle
NextDepth == DepthStart \/ DepthWave \/ DepthReturn
SpecDepth == InitDepth /\ [][NextDepth]_vars

\* ingestion and aggregation as App runs them
InitApp == AppInit /\ AggIdle /\ DepthIdle /\ ValidateIdle /\ UiIdle
NextApp == ComputeSankeyData \/ LinkClick
SpecApp == InitApp /\ [][NextApp]_vars

\* App rendered again and again with other data
InitRerun == RerunInit /\ AggIdle /\ DepthIdle /\ ValidateIdle /\ UiIdle
NextRerun == ComputeSankeyData \/ DataChange
SpecRerun == InitRerun /\ [][NextRerun]_vars

\* the pipeline run twice
InitTwice == TwiceInit /\ AggIdle /\ DepthIdle /\ ValidateIdle /\ UiIdle
NextTwice == RunPipeline
SpecTwice == InitTwice /\ [][NextTwice]_vars

\* the tooltip functions on a template and a record
InitTooltip == TooltipInit /\ AggIdle /\ AppIdle /\ DepthIdle /\ ValidateIdle /\ SettingsIdle /\ ChartIdle
NextTooltip == FormatTooltip \/ ValidateTemplate \/ MigrateTemplate
SpecTooltip == InitTooltip /\ [][NextTooltip]_vars

\* the settings dialog
InitSettings == SettingsInit /\ AggIdle /\ AppIdle /\ DepthIdle /\ ValidateIdle /\ TooltipIdle /\ ChartIdle
NextSettings == ChangeSetting \/ HandleSave \/ HandleCancel \/ ShowSettings
SpecSettings == InitSettings /\ [][NextSettings]_vars

\* the chart component between its mount and its unmount
InitChart == ChartInit /\ AggIdle /\ AppIdle /\ DepthIdle /\ ValidateIdle /\ TooltipIdle /\ SettingsIdle
NextChart ==
    ParentRender \/ RunEffects \/ WindowResize \/ ObserverCallback \/ TimerFires \/ Unmount
SpecChart == InitChart /\ [][NextChart]_vars

\* validateSankeyData on its own
InitValidate == ValidateInit /\ AggIdle /\ AppIdle /\ DepthIdle /\ UiIdle
NextValidate == Validate
SpecValidate == InitValidate /\ [][NextValidate]_vars

----------------------------------------------------------------------------
(* Properties of aggregateLinks (specification SpecAgg) *)

PairOf(link) == <<link.source, link.target>>
PairsOf(links) == { PairOf(links[i]) : i \in DOMAIN links }

RECURSIVE SumValues(_)
SumValues(links) == IF links = <<>> THEN 0 ELSE Head(links).value + SumValues(Tail(links))

\* the input edges of one ordered pair, in input order
RECURSIVE EdgesOfPair(_, _)
EdgesOfPair(links, p) ==
    IF links = <<>> THEN <<>>
    ELSE IF PairOf(Head(links)) = p
         THEN <<Head(links)>> \o EdgesOfPair(Tail(links), p)
         ELSE EdgesOfPair(Tail(links), p)

\* C1: every ordered pair of the input has an output edge whose value is the
\* sum of the values of the input edges of that pair, and the values of the
\* output add up to the values of the input.
C1_AggregationSums ==
    aggPc = "done" =>
        /\ \A p \in PairsOf(aggIn) :
                \E j \in DOMAIN aggOut :
                    /\ PairOf(aggOut[j]) = p
                    /\ aggOut[j].value = SumValues(EdgesOfPair(aggIn, p))
        /\ SumValues(aggOut) = SumValues(aggIn)

\* C2: the output has exactly one edge per distinct ordered pair of the input,
\* and no output edge stands for two different pairs.
C2_OneEdgePerPair ==
    aggPc = "done" =>
        /\ PairsOf(aggOut) = PairsOf(aggIn)
        /\ Len(aggOut) = Cardinality(PairsOf(aggIn))

\* C6: an aggregated edge carries the identifier of the first input edge of
\* its pair (and none when that edge has none); identifiers of the later
\* edges of the pair do not appear on it.
C6_FirstIdentifierWins ==
    aggPc = "done" =>
        \A j \in DOMAIN aggOut :
            LET first == Head(EdgesOfPair(aggIn, PairOf(aggOut[j])))
            IN  /\ HasId(aggOut[j]) <=> HasId(first)
                /\ HasId(first) => aggOut[j].id = first.id

\* two edges of one pair with different identifiers were merged
C6_Witness ==
    /\ aggPc = "done"
    /\ Len(aggIn) = 2 /\ Len(aggOut) = 1
    /\ PairOf(aggIn[1]) = PairOf(aggIn[2])
    /\ HasId(aggIn[1]) /\ HasId(aggIn[2]) /\ aggIn[1].id # aggIn[2].id

----------------------------------------------------------------------------
(* Properties of ingestion and of the pipeline (specification SpecApp) *)

sourceData == Column(sigmaData, config.sourceColumn)
targetData == Column(sigmaData, config.targetColumn)
valueData == Column(sigmaData, config.valueColumn)
idData == Column(sigmaData, config.idColumn)

SelectorMissing ==
    config.sourceColumn = "" \/ config.targetColumn = "" \/ config.valueColumn = ""

\* the three required columns are selected and have one length
RowsReadable ==
    /\ ~SelectorMissing
    /\ Len(sourceData) = Len(targetData)
    /\ Len(sourceData) = Len(valueData)

\* the string form of a cell: that of String(x), an absent cell having none
StringForm(c) == IF c = Null THEN <<>> ELSE JsString(c)

\* the rule of the row policy: a row is dropped exactly in these three cases
DroppedByRule(i) ==
    \/ Trim(StringForm(sourceData[i])) = <<>>
    \/ Trim(StringForm(targetData[i])) = <<>>
    \/ NumberOrZero(valueData[i]) <= 0

RECURSIVE EdgesByRule(_)
EdgesByRule(i) ==
    IF i > Len(sourceData) THEN <<>>
    ELSE IF DroppedByRule(i) THEN EdgesByRule(i + 1)
    ELSE << [source |-> Trim(StringForm(sourceData[i])),
             target |-> Trim(StringForm(targetData[i])),
             value |-> NumberOrZero(valueData[i])] >> \o EdgesByRule(i + 1)

\* C3: the provisional edges are, in row order, one edge per row that has a
\* non-empty trimmed source text, a non-empty trimmed target text and a
\* coerced value above 0, for cells of every scalar type.
C3_RowPolicy ==
    (appPc = "done" /\ RowsReadable) => rawData.links = EdgesByRule(1)

\* C4: the aggregated graph has no edge of value <= 0 and no node with an
\* empty label.
C4_FilteringInvariant ==
    /\ \A j \in DOMAIN sankeyData.links : sankeyData.links[j].value > 0
    /\ \A k \in DOMAIN sankeyData.nodes : sankeyData.nodes[k].name # <<>>

\* a graph was produced from rows of which one had a value <= 0 and one an
\* empty label
C4_Witness ==
    /\ appPc = "done" /\ RowsReadable
    /\ sankeyData.links # <<>>
    /\ \E i \in DOMAIN valueData : NumberOrZero(valueData[i]) <= 0
    /\ \E i \in DOMAIN sourceData : Trim(StringOrEmpty(sourceData[i])) = <<>>

\* the rows that survive the filter of the code, as row numbers in row order
RECURSIVE KeptRows(_)
KeptRows(i) ==
    IF i > Len(sourceData) THEN <<>>
    ELSE IF rowIsSkipped(Trim(StringOrEmpty(sourceData[i])),
                         Trim(StringOrEmpty(targetData[i])),
                         NumberOrZero(valueData[i]))
         THEN KeptRows(i + 1)
         ELSE <<i>> \o KeptRows(i + 1)

\* C5: with an identifier column selected, every provisional edge carries the
\* identifier of its row as a string; with none selected, no edge carries one.
C5_IdentifierCarried ==
    (appPc = "done" /\ RowsReadable /\ Len(idData) = Len(sourceData)) =>
        /\ Len(rawData.links) = Len(KeptRows(1))
        /\ \A k \in DOMAIN rawData.links :
                IF config.idColumn = "" THEN ~HasId(rawData.links[k])
                ELSE /\ HasId(rawData.links[k])
                     /\ rawData.links[k].id = JsString(idData[KeptRows(1)[k]])

\* the selected columns, the identifier column included when it is selected
SelectedColumns ==
    {sourceData, targetData, valueData} \cup (IF config.idColumn = "" THEN {} ELSE {idData})

\* C7: a missing required selector, or selected columns of different lengths,
\* give the empty graph.
C7_ShapeErrorGivesEmptyGraph ==
    (appPc = "done"
        /\ (SelectorMissing \/ \E a, b \in SelectedColumns : Len(a) # Len(b))) =>
        /\ transformSigmaDataToSankey(sigmaData, config.sourceColumn, config.targetColumn,
                                      config.valueColumn) = EmptyGraph
        /\ sankeyData = EmptyGraph

\* the labels of the provisional edges in order of appearance: source, then
\* target, row after row
RECURSIVE LabelsInOrder(_)
LabelsInOrder(links) ==
    IF links = <<>> THEN <<>>
    ELSE <<Head(links).source, Head(links).target>> \o LabelsInOrder(Tail(links))

FirstPosition(seq, x) == CHOOSE i \in DOMAIN seq : seq[i] = x /\ \A j \in 1..(i - 1) : seq[j] # x

\* C8: the node collection has every label of a surviving row, each once and
\* nothing else, ordered by first appearance.
C8_NodeCollection ==
    appPc = "done" =>
        LET names == [k \in DOMAIN rawData.nodes |-> rawData.nodes[k].name]
            labels == LabelsInOrder(rawData.links)
        IN  /\ \A a, b \in DOMAIN names : a # b => names[a] # names[b]
            /\ { names[k] : k \in DOMAIN names } = { labels[k] : k \in DOMAIN labels }
            /\ \A a, b \in DOMAIN names :
                    a < b => FirstPosition(labels, names[a]) < FirstPosition(labels, names[b])

\* two rows survived and share one label: three nodes, the shared one once
C8_Witness ==
    /\ appPc = "done"
    /\ Len(rawData.links) = 2
    /\ Len(rawData.nodes) = 3

----------------------------------------------------------------------------
(* Properties of calculateNodeDepths (specification SpecDepth) *)

NodeNameSet == { dNodes[k].name : k \in DOMAIN dNodes }
EdgeSet == { PairOf(dLinks[i]) : i \in DOMAIN dLinks }
NoDanglingEdge == \A e \in EdgeSet : e[1] \in NodeNameSet /\ e[2] \in NodeNameSet

\* the labels reached from the set S along edges that stay inside Allowed
RECURSIVE ReachableFrom(_, _)
ReachableFrom(S, Allowed) ==
    LET next == S \cup { e[2] : e \in { f \in EdgeSet : f[1] \in S /\ f[2] \in Allowed } }
    IN  IF next = S THEN S ELSE ReachableFrom(next, Allowed)

AllLabels == NodeNameSet \cup { e[1] : e \in EdgeSet } \cup { e[2] : e \in EdgeSet }
Successors(x) == { e[2] : e \in { f \in EdgeSet : f[1] = x } }
OnCycle(x) == x \in ReachableFrom(Successors(x), AllLabels)
CycleFree == { x \in AllLabels : ~OnCycle(x) }
ZeroInDegree == { x \in NodeNameSet : \A e \in EdgeSet : e[2] # x }

\* reached from a node without incoming edge along a path that meets no cycle
ReachedWithoutCycle == ReachableFrom(ZeroInDegree \cap CycleFree, CycleFree)

DepthOf(x) == dOut[CHOOSE k \in DOMAIN dOut : dOut[k].name = x].depth

\* C9: on a graph whose edges all join nodes of the node list, every edge s->t
\* whose target is reached from a zero-in-degree node without meeting a cycle
\* has depth(t) >= depth(s) + 1, whatever cycles the graph has elsewhere.
C9_LayeringInvariant ==
    (dPc = "done" /\ NoDanglingEdge) =>
        \A e \in EdgeSet :
            e[2] \in ReachedWithoutCycle => DepthOf(e[2]) >= DepthOf(e[1]) + 1

\* C10: every node of the node list is returned with a depth that is a
\* natural number; a node the breadth-first pass never processed has depth 0.
C10_DepthDefined ==
    dPc = "done" =>
        /\ { dOut[k].name : k \in DOMAIN dOut } = NodeNameSet
        /\ \A k \in DOMAIN dOut :
                /\ dOut[k].depth \in Nat
                /\ dOut[k].name \notin visited => dOut[k].depth = 0

\* a node on a cycle was never processed, next to a node of depth 1
C10_Witness ==
    /\ dPc = "done"
    /\ \E k \in DOMAIN dOut : dOut[k].name \notin visited /\ OnCycle(dOut[k].name)
    /\ \E k \in DOMAIN dOut : dOut[k].depth = 1

\* the edge list without the edges that name a label absent from the node list
RECURSIVE WithoutDangling(_)
WithoutDangling(links) ==
    IF links = <<>> THEN <<>>
    ELSE IF Head(links).source \in NodeNameSet /\ Head(links).target \in NodeNameSet
         THEN <<Head(links)>> \o WithoutDangling(Tail(links))
         ELSE WithoutDangling(Tail(links))

\* C11: the returned depths are those returned for the same node list with
\* every dangling edge removed.
C11_DanglingEdgesIgnored ==
    dPc = "done" => dOut = calculateNodeDepths(dNodes, WithoutDangling(dLinks))

----------------------------------------------------------------------------
(* Properties of validateSankeyData (specification SpecValidate) *)

HasBoth == "nodes" \in DOMAIN vData /\ "links" \in DOMAIN vData
Validated == vPc = "done" /\ HasBoth

\* the messages of a list that have the given text
MessagesWith(list, text) == { i \in DOMAIN list : list[i].text = text }

\* the message of the given text is in the list exactly when n > 0, once and
\* with the count n
ReportsCount(list, text, n) ==
    /\ n = 0 => MessagesWith(list, text) = {}
    /\ n > 0 => /\ Cardinality(MessagesWith(list, text)) = 1
                /\ \A i \in MessagesWith(list, text) : list[i].count = n

VNames == { vData.nodes[k].name : k \in DOMAIN vData.nodes }
VEndpoints == { vData.links[i].source : i \in DOMAIN vData.links }
              \cup { vData.links[i].target : i \in DOMAIN vData.links }
DanglingCount ==
    Cardinality({ i \in DOMAIN vData.links : {vData.links[i].source, vData.links[i].target} \ VNames # {} })
OrphanCount == Cardinality({ k \in DOMAIN vData.nodes : vData.nodes[k].name \notin VEndpoints })
SelfLoopCount == Cardinality({ i \in DOMAIN vData.links : PairOf(vData.links[i])[1] = PairOf(vData.links[i])[2] })
NonPositiveCount == Cardinality({ i \in DOMAIN vData.links : ~(vData.links[i].value > 0) })

\* C12: isValid is true exactly when the errors list is empty, whatever the
\* warnings are.
C12_ValidIffNoErrors ==
    vPc = "done" => (vReport.isValid <=> vReport.errors = <<>>)

\* a valid report that has a warning
C12_Witness ==
    vPc = "done" /\ vReport.isValid /\ vReport.warnings # <<>>

\* C13: the dangling-reference error is reported exactly when some edge names
\* a label absent from the node collection; its count is the number of such
\* edges, an edge with both ends absent counted once; the report is invalid.
C13_DanglingError ==
    Validated =>
        /\ ReportsCount(vReport.errors, TextInvalid, DanglingCount)
        /\ MessagesWith(vReport.warnings, TextInvalid) = {}
        /\ DanglingCount > 0 => ~vReport.isValid

\* two dangling edges, one of them with both ends absent
C13_Witness ==
    /\ Validated
    /\ DanglingCount = 2
    /\ \E i \in DOMAIN vData.links :
            vData.links[i].source \notin VNames /\ vData.links[i].target \notin VNames
    /\ \E i \in DOMAIN vData.links :
            vData.links[i].source \in VNames /\ vData.links[i].target \notin VNames

\* C14: orphaned nodes are reported as a warning with their number and never
\* as an error; a graph with no other problem is valid.
C14_OrphanWarning ==
    Validated =>
        /\ ReportsCount(vReport.warnings, TextOrphaned, OrphanCount)
        /\ MessagesWith(vReport.errors, TextOrphaned) = {}
        /\ (vData.nodes # <<>> /\ vData.links # <<>> /\ DanglingCount = 0
                /\ NonPositiveCount = 0) => vReport.isValid

\* a valid graph with edges and one orphaned node
C14_Witness ==
    /\ Validated
    /\ vReport.isValid
    /\ OrphanCount = 1
    /\ vData.links # <<>>

\* C15: an empty node list and an empty edge list are each reported as an
\* error; the empty graph gets exactly these two errors, in this order, no
\* warnings, and is invalid.
C15_EmptyGraphErrors ==
    Validated =>
        /\ Cardinality(MessagesWith(vReport.errors, TextNoNodes))
                = (IF vData.nodes = <<>> THEN 1 ELSE 0)
        /\ Cardinality(MessagesWith(vReport.errors, TextNoLinks))
                = (IF vData.links = <<>> THEN 1 ELSE 0)
        /\ (vData.nodes = <<>> \/ vData.links = <<>>) => ~vReport.isValid
        /\ (vData.nodes = <<>> /\ vData.links = <<>>) =>
                vReport = [isValid |-> FALSE,
                           errors |-> <<[text |-> TextNoNodes], [text |-> TextNoLinks]>>,
                           warnings |-> <<>>]

\* the empty graph has been validated
C15_Witness ==
    Validated /\ vData.nodes = <<>> /\ vData.links = <<>> /\ Len(vReport.errors) = 2

\* C16: a document without its nodes or its links field gets exactly one
\* error, no warnings, and is invalid; no other check runs.
C16_MissingData ==
    (vPc = "done" /\ ~HasBoth) =>
        vReport = [isValid |-> FALSE,
                   errors |-> <<[text |-> TextMissing]>>,
                   warnings |-> <<>>]

\* a document with only its links field, one of them of value 0, validated
C16_Witness ==
    /\ vPc = "done"
    /\ DOMAIN vData = {"links"}
    /\ \E i \in DOMAIN vData.links : vData.links[i].value = 0
    /\ ~vReport.isValid

\* C17: edges of value 0 or below are reported as one error with their
\* number, and the report is invalid.
C17_NonPositiveError ==
    Validated =>
        /\ ReportsCount(vReport.errors, TextNegative, NonPositiveCount)
        /\ MessagesWith(vReport.warnings, TextNegative) = {}
        /\ NonPositiveCount > 0 => ~vReport.isValid

\* an edge of value 0 between known nodes and an edge of negative value
C17_Witness ==
    /\ Validated
    /\ NonPositiveCount = 2
    /\ DanglingCount = 0
    /\ \E i \in DOMAIN vData.links : vData.links[i].value = 0
    /\ \E i \in DOMAIN vData.links : vData.links[i].value < 0

\* C18: self-loops are reported as a warning with their number and never as
\* an error; a graph whose only problem is self-loops is valid.
C18_SelfLoopWarning ==
    Validated =>
        /\ ReportsCount(vReport.warnings, TextSelf, SelfLoopCount)
        /\ MessagesWith(vReport.errors, TextSelf) = {}
        /\ (SelfLoopCount > 0 /\ vData.nodes # <<>> /\ DanglingCount = 0
                /\ NonPositiveCount = 0) => vReport.isValid

\* a valid graph with one self-loop and one edge that is not a self-loop
C18_Witness ==
    /\ Validated
    /\ vReport.isValid
    /\ SelfLoopCount = 1
    /\ Len(vData.links) = 2

----------------------------------------------------------------------------
(* Properties of the pipeline output under validation and of the rendering *)
(* (specification SpecApp) *)

PipelineReport == validateSankeyData(sankeyData)
GraphNames == { sankeyData.nodes[k].name : k \in DOMAIN sankeyData.nodes }

\* C19: the graph of the pipeline is closed: every end of an edge is a node
\* and every node is an end of an edge, so that validating a non-empty output
\* gives no dangling-reference error, no non-positive-value error and no
\* orphan warning.
C19_PipelineOutputClosed ==
    (appPc = "done" /\ sankeyData # EmptyGraph) =>
        /\ \A i \in DOMAIN sankeyData.links :
                /\ sankeyData.links[i].source \in GraphNames
                /\ sankeyData.links[i].target \in GraphNames
        /\ \A k \in DOMAIN sankeyData.nodes :
                \E i \in DOMAIN sankeyData.links :
                    sankeyData.nodes[k].name \in {sankeyData.links[i].source, sankeyData.links[i].target}
        /\ MessagesWith(PipelineReport.errors, TextInvalid) = {}
        /\ MessagesWith(PipelineReport.errors, TextNegative) = {}
        /\ MessagesWith(PipelineReport.warnings, TextOrphaned) = {}

\* the three required columns are selected on a source element
MainContentShown == config.source # "" /\ ~SelectorMissing

\* C20 as claimed: whenever validating the current graph would give an
\* error, the validation-error panel is rendered and the chart is not.
C20_ErrorsBlockChart ==
    (appPc = "done" /\ MainContentShown /\ PipelineReport.errors # <<>>) =>
        view = "validationErrors"

\* C20 as amended: the same, when the source column holds at least one row
\* or the graph is not empty.
C20_ErrorsBlockChartWithRows ==
    (/\ appPc = "done"
     /\ MainContentShown
     /\ PipelineReport.errors # <<>>
     /\ (sankeyData # EmptyGraph \/ Len(sourceData) > 0)) =>
        /\ view = "validationErrors"
        /\ dataValidation = PipelineReport

\* the error panel is shown for the empty graph of a column-length mismatch
C20_Witness ==
    /\ appPc = "done"
    /\ MainContentShown
    /\ ~RowsReadable
    /\ Len(sourceData) > 0
    /\ view = "validationErrors"
    /\ Len(dataValidation.errors) = 2

----------------------------------------------------------------------------
(* Longest paths and wave counts of calculateNodeDepths (specification SpecDepth) *)

Predecessors(x) == { e[1] : e \in { f \in EdgeSet : f[2] = x } }
SetMax(S) == CHOOSE m \in S : \A n \in S : n <= m
Acyclic == \A x \in AllLabels : ~OnCycle(x)

\* the number of edges of the longest path that ends in x, on an acyclic graph
RECURSIVE LongestPathTo(_)
LongestPathTo(x) ==
    IF Predecessors(x) = {} THEN 0
    ELSE 1 + SetMax({ LongestPathTo(p) : p \in Predecessors(x) })

\* C25: on an acyclic graph without dangling edges the depth of a node is the
\* length of the longest path from a node without incoming edge: 0 exactly
\* for the nodes without incoming edge, 1 + the largest depth of a
\* predecessor for the others.
C25_DepthIsLongestPath ==
    (dPc = "done" /\ NoDanglingEdge /\ Acyclic) =>
        \A x \in NodeNameSet :
            /\ DepthOf(x) = LongestPathTo(x)
            /\ DepthOf(x) = 0 <=> x \in ZeroInDegree
            /\ \A p \in Predecessors(x) : DepthOf(p) < DepthOf(x)

\* a node of depth 2 with predecessors of depth 0 and 1
C25_Witness ==
    /\ dPc = "done" /\ NoDanglingEdge /\ Acyclic
    /\ \E x \in NodeNameSet :
            /\ DepthOf(x) = 2
            /\ { DepthOf(p) : p \in Predecessors(x) } = {0, 1}

NoDuplicates(q) == \A i, j \in DOMAIN q : q[i] = q[j] => i = j
QueuedOnce ==
    /\ NoDuplicates(queue)
    /\ \A i \in DOMAIN queue : queue[i] \notin visited
DepthsBelowNodeCount ==
    dPc = "done" => \A k \in DOMAIN dOut : dOut[k].depth < Cardinality(NodeNameSet)

----------------------------------------------------------------------------
(* Failures inside the pipeline (specification SpecRerun) *)

\* the loop of ingestion is reached and meets a cell it throws on
FailureRaised ==
    RowsReadable /\ \E i \in DOMAIN valueData : valueData[i].t = "symbol"

\* C21: a failure raised inside ingestion or aggregation does not leave the
\* sankeyData memo: the graph is then the empty graph, and a run on data
\* without such a failure gives the graph of that data, whatever ran before.
C21_FailureContained ==
    appPc = "done" =>
        /\ view # "thrown"
        /\ FailureRaised => sankeyData = EmptyGraph
        /\ ~FailureRaised =>
                /\ rawData.links = EdgesByRule(1)
                /\ sankeyData.nodes = rawData.nodes
                /\ { sankeyData.nodes[k].name : k \in DOMAIN sankeyData.nodes }
                        = { LabelsInOrder(EdgesByRule(1))[k] :
                                k \in DOMAIN LabelsInOrder(EdgesByRule(1)) }
                /\ SumValues(sankeyData.links) = SumValues(EdgesByRule(1))

\* a run failed and left the empty graph; other data, without a failing
\* cell, has arrived for the next run
C21_Witness ==
    /\ appPc = "render"
    /\ rawData = Raised
    /\ sankeyData = EmptyGraph
    /\ view = "validationErrors"
    /\ ~FailureRaised
    /\ Len(valueData) = 2

----------------------------------------------------------------------------
(* Repeated runs (specification SpecTwice) *)

\* C22: a run leaves the columns, the provisional edge list and the node
\* list as they were, so that each function called again on the same object
\* returns what it returned, and the second run of the pipeline returns what
\* the first returned, in the same order.
C22_RunsAgree ==
    [][ /\ sigmaData' = sigmaData
        /\ aggIn' = rawData'.links
        /\ dNodes' = rawData'.nodes
        /\ dLinks' = aggOut'
        /\ aggregateLinks(aggIn') = aggOut'
        /\ calculateNodeDepths(dNodes', dLinks') = dOut'
        /\ appPc' = "twice" =>
                /\ rawData' = rawData
                /\ aggOut' = aggOut
                /\ dOut' = dOut ]_vars

\* two runs were made on rows that aggregation merged and layering put on
\* more than one level
C22_Witness ==
    /\ appPc = "twice"
    /\ Len(aggOut) < Len(rawData.links)
    /\ \E k \in DOMAIN dOut : dOut[k].depth = 1

----------------------------------------------------------------------------
(* Properties of the tooltip functions (specification SpecTooltip) *)

EdgeFields(data) ==
    << [name |-> NameSource, text |-> StringOrEmpty(data.source)],
       [name |-> NameTarget, text |-> StringOrEmpty(data.target)],
       [name |-> NameValue, text |-> StringOrZero(data.value)],
       [name |-> NameId, text |-> StringOrEmpty(data.id)] >>

\* the placeholders of the fields, plain and with the data. prefix
Placeholders(fields) ==
    UNION { { [p |-> Braced(fields[k].name), text |-> fields[k].text],
              [p |-> Braced(DataDot \o fields[k].name), text |-> fields[k].text] } :
            k \in DOMAIN fields }

\* the placeholders that start at position i of s
PlaceholderAt(s, i, fields) ==
    { [len |-> Len(f.p), text |-> f.text] :
        f \in { f \in Placeholders(fields) : StartsWith(s, i, f.p) } }

\* every placeholder of the template replaced by the value of its field, the
\* rest of the template copied, in one pass
RECURSIVE Substituted(_, _, _)
Substituted(s, i, fields) ==
    IF i > Len(s) THEN <<>>
    ELSE LET hits == PlaceholderAt(s, i, fields) IN
         IF hits = {} THEN <<s[i]>> \o Substituted(s, i + 1, fields)
         ELSE LET h == CHOOSE h \in hits : TRUE
              IN  h.text \o Substituted(s, i + h.len, fields)

EdgeFormatted == "format" \in tDone /\ tParams.dataType = "edge" /\ tParams.data.given

\* C23: for an edge record the formatter returns the template with every
\* {source}, {target}, {value}, {id} and every {data.*} alias replaced by the
\* field of the record and everything else left as it is, whatever the
\* template and the field values are.
C23_EdgeSubstitution ==
    EdgeFormatted => fmtOut = Substituted(tpl, 1, EdgeFields(tParams.data))

\* the placeholders the formatter replaces for an edge or for a node
SubstitutedForms ==
    UNION { { Braced(n), Braced(DataDot \o n) } :
            n \in { NameSource, NameTarget, NameValue, NameId, NameName } }

\* the variables of the 'Unknown variable' warnings, in the order of the warnings
RECURSIVE UnknownOf(_)
UnknownOf(warnings) ==
    IF warnings = <<>> THEN <<>>
    ELSE (IF includesUnknownVariable(Head(warnings))
          THEN <<Head(warnings).variable>> ELSE <<>>) \o UnknownOf(Tail(warnings))

\* the placeholders of the template that the formatter replaces for no record
RECURSIVE NotSubstituted(_)
NotSubstituted(found) ==
    IF found = <<>> THEN <<>>
    ELSE (IF Head(found).variable \in SubstitutedForms
          THEN <<>> ELSE <<Head(found).variable>>) \o NotSubstituted(Tail(found))

DeprecationCount(warnings) ==
    Cardinality({ i \in DOMAIN warnings : warnings[i] = Deprecated })

\* C24: the validator warns 'Unknown variable' for exactly the placeholders
\* the formatter replaces for no record type, isValid is false exactly when
\* there is such a warning, and a {data. prefix adds one deprecation warning
\* that does not change isValid.
C24_UnknownIffNotSubstituted ==
    "validate" \in tDone =>
        /\ UnknownOf(tvReport.warnings) = NotSubstituted(foundVariables(tpl, 1))
        /\ tvReport.isValid <=> NotSubstituted(foundVariables(tpl, 1)) = <<>>
        /\ DeprecationCount(tvReport.warnings)
               = IF Includes(tpl, <<"{">> \o DataDot) THEN 1 ELSE 0

Migrated == "migrate" \in tDone

SameTooltip == createTooltipFormatter(migrated, tParams) = createTooltipFormatter(tpl, tParams)
MigrateIdempotent == migrateTooltipTemplate(migrated) = migrated
NoDataForms ==
    \A n \in { NameSource, NameTarget, NameValue, NameId } :
        ~Includes(migrated, Braced(DataDot \o n))

\* C29: the formatter of the migrated template returns what the formatter of
\* the template returns, for every node or edge record; migrating twice gives
\* what migrating once gives; the migrated template holds none of
\* {data.source}, {data.target}, {data.value}, {data.id}.
C29_MigrationKeepsMeaning ==
    Migrated => SameTooltip /\ MigrateIdempotent /\ NoDataForms

----------------------------------------------------------------------------
(* Properties of the settings dialog (specification SpecSettings) *)

\* the stated range of every integer setting that has a value
IntegerSettingsInRange(settings) ==
    \A f \in IntFields :
        settings[f].t = "number" =>
            settings[f].v >= RangeMin(f) /\ settings[f].v <= RangeMax(f)

\* C28: a click on Save calls client.config.set or onSave only when every
\* integer setting is inside its range (width 5..100, font size 8..24, node gap
\* 0..50, level gap 10..200, iterations 1..100, duration 0..5000, fixed height
\* 200..2000); with a value outside its range, 0 included, nothing is written,
\* onSave is not called and the dialog stays open.
C28_SaveOnlyInRange ==
    \A c \in saveClicks :
        ~IntegerSettingsInRange(c.settings) => ~c.wrote /\ ~c.saved /\ c.open

----------------------------------------------------------------------------
(* Properties of the chart component (specification SpecChart) *)

InitCalls == chart.initLog

\* C27: every initChart call after the first one that ended without an
\* exception hands setOption an option with animation = false and
\* animationDuration = 0, whatever renders and changes of data, settings or
\* callbacks came before.
C27_AnimateOnlyFirstInit ==
    \A i, j \in DOMAIN InitCalls :
        (j < i /\ InitCalls[j].ok) =>
            /\ InitCalls[i].option.animation = FALSE
            /\ InitCalls[i].option.animationDuration = 0

\* C30: at most one chart made by the component is undisposed at any time; a
\* chart is initialised only for a graph with at least one node and one link;
\* no undisposed chart is left after the unmount; resize() is never called on
\* a disposed chart.
C30_OneLiveChart ==
    /\ Cardinality(chart.live) <= 1
    /\ \A i \in DOMAIN InitCalls :
           InitCalls[i].data.nodes > 0 /\ InitCalls[i].data.links > 0
    /\ cPc = "unmounted" => chart.live = {}
    /\ ~chart.resizedDisposed

\* a second chart was made, resize() was called, the component is unmounted
\* and a timeout of the ResizeObserver is still pending
C30_Witness ==
    /\ cPc = "unmounted" /\ chart.created >= 2 /\ chart.resized /\ timers > 0

====
